---- MODULE Spec2Model ----
(***************************************************************************)
(* Encrypted-store lifecycle and key-gated access of asher-mcp:            *)
(*   - EncryptionKeyService (the key coordinator and its prompt sequence)  *)
(*   - SQLiteDatabaseService (initialize / applyEncryption, the tables)    *)
(*   - ScraperService (fetchAllTransactions, the ingestion run)            *)
(* Spec       : tool calls running Server.withDb concurrently on one       *)
(*              event loop (key coordinator + store opening).              *)
(* SpecIngest : credential upserts, saveTransaction and ingestion runs     *)
(*              against an opened store.                                   *)
(* SpecRerun  : SpecIngest with a provider whose result set does not       *)
(*              change between runs.                                       *)
(* SpecQuery  : executeSafeSelectQuery (the sqlQuery tool) with query      *)
(*              texts checked by validateSelectQuery.                      *)
(* SpecStore  : the store's write operations on a store that is open,      *)
(*              closed or not opened yet.                                  *)
(* SpecKey    : setKey / clearKey called with arbitrary texts.             *)
(***************************************************************************)
EXTENDS Integers, Sequences, FiniteSets, TLC

\* ------------------------------------------------------------------ bounds
NumCallers == 2
MaxTermAttempt == 2
MaxBatch == 1
MaxFresh == 2
MaxQueryLen == 3
MaxKeyLen == 7
MaxCredSeq == 2
MaxFile == 2

\* --------------------------------------------------------------- constants
maxRetries == 2
MinKeyLength == 6
Second == 1000

Callers == 1..NumCallers

\* Characters are small integers; SP is the blank that trim() removes.
SP == 0

RECURSIVE TrimLeft(_)
TrimLeft(s) == IF s # <<>> /\ Head(s) = SP THEN TrimLeft(Tail(s)) ELSE s

RECURSIVE TrimRight(_)
TrimRight(s) ==
  IF s # <<>> /\ s[Len(s)] = SP THEN TrimRight(SubSeq(s, 1, Len(s) - 1)) ELSE s

\* String.prototype.trim
Trim(s) == TrimRight(TrimLeft(s))

\* The key the existing store file is encrypted with, and another valid key.
GoodKey == <<1, 1, 1, 1, 1, 1>>
OtherKey == <<2, 2, 2, 2, 2, 2>>

\* What the user can type into a prompt: nothing, blanks, a short word,
\* the right key (padded), a valid but wrong key.
Replies == { <<>>, <<SP, SP>>, <<1, 2>>, <<SP>> \o GoodKey, OtherKey }

\* The character that ends a string literal of the PRAGMA text.
Apostrophe == 39

NoKey == <<>>
NoHandle == 0

Sites == {"withDb", "apply"}
\* A prompt sequence is named by the ensureKeyIsAvailable call that started it.
Seqs == Callers \X Sites
Chans == {"notif", "term"}

VARIABLES
  currentKey,    \* EncryptionKeyService.currentKey (NoKey models null)
  isPrompting,   \* EncryptionKeyService.isPrompting
  prompts,       \* outstanding notification callbacks / stdin listeners, with their number
  seqState,      \* each sequence's promise: "none", "active", "resolved", "rejected"
  seqKey,        \* the key a sequence's promise resolved with
  asked,         \* the prompts a sequence in flight has put to the user: channel and attempt
  pc,            \* where each tool call stands
  site,          \* which ensureKeyIsAvailable call the caller is in
  gotKey,        \* the key ensureKeyIsAvailable returned to the caller
  isNew,         \* initialize(): isNewDatabase of the call
  outcome,       \* how the call ended
  ret,           \* the handle initialize() returned
  joined,        \* the sequences in flight when the caller began to wait
  file,          \* the store file on disk: absent, empty, or encrypted with a key,
                 \* and its permission bits
  rawOpen,       \* raw Database handles currently open (named by their creator)
  db,            \* SQLiteDatabaseService.db
  initialized,   \* SQLiteDatabaseService.initialized
  logged         \* what the log file holds of texts a user typed: the key
                 \* applied and the error text written

keyVars == <<currentKey, isPrompting, prompts, seqState, seqKey, asked>>
callVars == <<pc, site, gotKey, isNew, outcome, ret, joined>>
storeVars == <<file, rawOpen, db, initialized, logged>>

VARIABLES
  creds,         \* rows of scraper_credentials
  credSeq,       \* the AUTOINCREMENT sequence of scraper_credentials
  txns,          \* rows of transactions
  fresh,         \* how many identifiers saveScrapedTransactions has made up
  scraperDb,     \* the handle ScraperService.ts captured when it was loaded
  run,           \* the fetchAllTransactions call: position, configs, results
  other,         \* a second fetchAllTransactions call, made while the first is under way
  served,        \* what the provider answered for each source the first time
  last           \* the last call of the store's API and what it returned

VARIABLES
  answer         \* the last executeSafeSelectQuery call: its query and what came of it

tableVars == <<creds, credSeq, txns, fresh>>
ingestVars == <<tableVars, scraperDb, run, other, served, last, answer>>

\* ------------------------------------------------- EncryptionKeyService
\* The coordinator's fields gathered in one record, so that a handler that
\* calls other methods is one function of the state.
KeyState ==
  [key |-> currentKey, prompting |-> isPrompting, prompts |-> prompts,
   st |-> seqState, sk |-> seqKey, asked |-> asked]

\* The number of outstanding prompts of sequence q on channel ch at attempt a.
Count(P, q, ch, a) ==
  IF \E r \in P : r.owner = q /\ r.chan = ch /\ r.attempt = a
    THEN (CHOOSE r \in P : r.owner = q /\ r.chan = ch /\ r.attempt = a).n
    ELSE 0

\* P with the number of such prompts changed by d.
Bump(P, q, ch, a, d) ==
  LET rest == {r \in P : ~(r.owner = q /\ r.chan = ch /\ r.attempt = a)}
      m == Count(P, q, ch, a) + d
  IN IF m > 0 THEN rest \cup {[owner |-> q, chan |-> ch, attempt |-> a, n |-> m]}
     ELSE rest

\* resolve(key) of a sequence's promise: only the first settlement counts.
Resolve(K, q, k) ==
  IF K.st[q] = "active"
    THEN [K EXCEPT !.st[q] = "resolved", !.sk[q] = k, !.asked[q] = {}] ELSE K

\* reject(error) of a sequence's promise.
Reject(K, q) ==
  IF K.st[q] = "active" THEN [K EXCEPT !.st[q] = "rejected", !.asked[q] = {}] ELSE K

\* setKey(key): TRUE when it throws.
SetKeyThrows(key) == Len(key) < MinKeyLength

\* setKey(key), when it does not throw.
SetKey(K, key) == [K EXCEPT !.key = Trim(key)]

\* promptForEncryptionKey(attempt), n calls of it made for sequence q.
PromptForEncryptionKey(K, q, attempt, n) ==
  IF attempt >= maxRetries
    THEN Reject(K, q)
    ELSE [K EXCEPT !.prompting = TRUE,
                   !.prompts = Bump(@, q, "notif", attempt, n),
                   !.asked[q] = IF K.st[q] = "active"
                                  THEN @ \cup {<<"notif", attempt>>} ELSE @]

\* promptTerminalForEncryptionKey(attempt, resolve, reject): n listeners added.
PromptTerminal(K, q, attempt, n) ==
  [K EXCEPT !.prompts = Bump(@, q, "term", attempt, n),
            !.asked[q] = IF K.st[q] = "active"
                           THEN @ \cup {<<"term", attempt>>} ELSE @]

\* The successful branch of both handlers: setKey, isPrompting = false, resolve.
AcceptKey(K, q, key) ==
  Resolve([SetKey(K, key) EXCEPT !.prompting = FALSE], q, key)

\* handleNotificationResponse(null, 'replied', {response: text})
NotificationReplied(K, q, attempt, text) ==
  LET key == Trim(text) IN
  IF key = <<>> THEN PromptForEncryptionKey(K, q, attempt + 1, 1)
  ELSE IF SetKeyThrows(key) THEN PromptForEncryptionKey(K, q, attempt + 1, 1)
  ELSE AcceptKey(K, q, key)

\* handleNotificationResponse(null, 'timeout' | 'dismissed')
NotificationClosed(K, q) == Reject(K, q)

\* A notification that fails: sendNotification calls the callback with the
\* error and then rejects, so the handler and the .catch both fall back.
NotificationFailed(K, q, attempt) ==
  PromptTerminal(PromptTerminal(K, q, attempt, 1), q, attempt, 1)

\* The stdin 'data' listener of promptTerminalForEncryptionKey, for the n
\* listeners of one kind that the same input reaches.
TerminalData(K, q, attempt, n, input) ==
  LET key == Trim(input) IN
  IF key = <<>> THEN PromptForEncryptionKey(K, q, attempt + 1, n)
  ELSE IF SetKeyThrows(key) THEN PromptTerminal(K, q, attempt + 1, n)
  ELSE AcceptKey(K, q, key)

\* clearKey() that forgets to discard the key.
ClearKeyKeeps(K) == K

\* clearKey()
ClearKey(K) == [K EXCEPT !.key = NoKey]

\* ------------------------------------------------ SQLiteDatabaseService
Absent == [st |-> "absent", key |-> NoKey, mode |-> "none"]
Empty == [st |-> "empty", key |-> NoKey, mode |-> "umask"]
Keyed(k) == [st |-> "keyed", key |-> k, mode |-> "0600"]

\* A chmodSync that changes nothing.
ChmodSkipped(f) == f

\* chmodSync(dbPath, 0o600)
ChmodSync(f) == [f EXCEPT !.mode = "0600"]

\* databaseExists()
DatabaseExists == file.st # "absent"

\* The try block of applyEncryption: the cipher pragmas, then
\* PRAGMA schema_version as the check that the file can be read. 'rekey'
\* sets the key of a plaintext (here: still empty) file, 'key' unlocks.
PragmasSucceed(f, isNewDatabase, key) ==
  /\ \A i \in DOMAIN key : key[i] # Apostrophe
  /\ IF f.st = "keyed" THEN ~isNewDatabase /\ f.key = key ELSE TRUE

\* The part of the error message of db.pragma(`key='${key}'`) that comes
\* from the key, for a key with at most one apostrophe: none without
\* apostrophe ("file is not a database"); the unfinished literal when the
\* key ends with it (unrecognized token: "'...''"); the word after it
\* otherwise (near "...": syntax error).
PragmaError(key) ==
  LET at == {i \in DOMAIN key : key[i] = Apostrophe}
  IN IF at = {} THEN <<>>
     ELSE IF at = {Len(key)} THEN <<Apostrophe>> \o key \o <<Apostrophe>>
     ELSE LET i == CHOOSE i \in at : TRUE IN SubSeq(key, i + 1, Len(key))

\* initializeDatabase(): the first write puts the file under the handle's key.
InitializeDatabase(f, key) ==
  IF f.st = "keyed" THEN f ELSE [f EXCEPT !.st = "keyed", !.key = key]

\* An initialize() without its early return.
AlreadyOpenIgnored == FALSE

\* The entry test of initialize(): the store is already open.
AlreadyOpen == initialized /\ db # NoHandle

\* ------------------------------------------------------------ tool calls
SetKeyState(K) ==
  /\ currentKey' = K.key
  /\ isPrompting' = K.prompting
  /\ prompts' = K.prompts
  /\ seqState' = K.st
  /\ seqKey' = K.sk
  /\ asked' = K.asked

\* Where a call continues once ensureKeyIsAvailable has returned at site s.
After(s) == IF s = "withDb" THEN "init" ELSE "apply"

Awaiting(c) == pc[c] = "prompting"
SeqOf(c) == <<c, site[c]>>
ActiveSeqs == {q \in Seqs : seqState[q] = "active"}

\* A call whose continuation sits in the microtask queue. Timer, notifier
\* and stdin callbacks are macrotasks: the event loop runs one only when
\* the microtask queue is empty.
Runnable(c) == pc[c] \in {"init", "open", "apply"}
LoopIdle == \A c \in Callers : ~Runnable(c)

\* The call of c ends with outcome o and handle h; its locals are dropped.
Return(c, o, h) ==
  /\ pc' = [pc EXCEPT ![c] = "done"]
  /\ outcome' = [outcome EXCEPT ![c] = o]
  /\ ret' = [ret EXCEPT ![c] = h]
  /\ site' = [site EXCEPT ![c] = "withDb"]
  /\ gotKey' = [gotKey EXCEPT ![c] = NoKey]
  /\ isNew' = [isNew EXCEPT ![c] = FALSE]
  /\ joined' = [joined EXCEPT ![c] = {}]

\* The continuations of the calls awaiting a sequence that K settles.
\* A rejection leaves withDb, or initialize() at line 120, by the exception.
Continue(K) ==
  LET won(c) == Awaiting(c) /\ K.st[SeqOf(c)] = "resolved"
      lost(c) == Awaiting(c) /\ K.st[SeqOf(c)] = "rejected"
  IN /\ pc' = [c \in Callers |->
                IF won(c) THEN After(site[c]) ELSE IF lost(c) THEN "done" ELSE pc[c]]
     /\ gotKey' = [c \in Callers |->
                IF won(c) THEN K.sk[SeqOf(c)] ELSE IF lost(c) THEN NoKey ELSE gotKey[c]]
     /\ outcome' = [c \in Callers |-> IF lost(c) THEN "keyError" ELSE outcome[c]]
     /\ site' = [c \in Callers |-> IF lost(c) THEN "withDb" ELSE site[c]]
     /\ isNew' = [c \in Callers |-> IF lost(c) THEN FALSE ELSE isNew[c]]
     /\ UNCHANGED <<ret, joined>>

\* ensureKeyIsAvailable(), called by c at site s.
EnsureKeyIsAvailable(c, s) ==
  /\ site' = [site EXCEPT ![c] = s]
  /\ IF currentKey # NoKey
       THEN /\ pc' = [pc EXCEPT ![c] = After(s)]
            /\ gotKey' = [gotKey EXCEPT ![c] = currentKey]
            /\ UNCHANGED <<keyVars, joined>>
       ELSE IF isPrompting
         THEN /\ pc' = [pc EXCEPT ![c] = "polling"]
              /\ joined' = [joined EXCEPT ![c] = ActiveSeqs]
              /\ UNCHANGED <<gotKey, keyVars>>
         ELSE /\ pc' = [pc EXCEPT ![c] = "prompting"]
              /\ SetKeyState(PromptForEncryptionKey(
                   [KeyState EXCEPT !.st[<<c, s>>] = "active"], <<c, s>>, 0, 1))
              /\ UNCHANGED <<gotKey, joined>>

\* withDb: await encryptionKeyService.ensureKeyIsAvailable()
Call(c) ==
  /\ pc[c] = "start"
  /\ EnsureKeyIsAvailable(c, "withDb")
  /\ UNCHANGED <<isNew, outcome, ret, storeVars>>
  /\ UNCHANGED ingestVars

\* A client that calls initialize() itself, as ingestCredentials does.
Open(c) ==
  /\ pc[c] = "start"
  /\ pc' = [pc EXCEPT ![c] = "init"]
  /\ UNCHANGED <<site, gotKey, isNew, outcome, ret, joined, keyVars, storeVars>>
  /\ UNCHANGED ingestVars

\* What the timer callback check() of a waiting caller finds.
CheckOutcome == 
  IF currentKey # NoKey THEN "resolve"
  ELSE IF ~isPrompting THEN "reject"
  ELSE "wait"

\* The timer callback check() of a caller that found a prompt in flight.
Poll(c) ==
  /\ LoopIdle
  /\ pc[c] = "polling"
  /\ \/ /\ CheckOutcome = "resolve"
        /\ pc' = [pc EXCEPT ![c] = After(site[c])]
        /\ gotKey' = [gotKey EXCEPT ![c] = currentKey]
        /\ joined' = [joined EXCEPT ![c] = {}]
        /\ UNCHANGED <<outcome, site, isNew, ret>>
     \/ /\ CheckOutcome = "reject"
        /\ Return(c, "keyError", NoHandle)
  /\ UNCHANGED <<keyVars, storeVars>>
  /\ UNCHANGED ingestVars

\* A notification of sequence q, attempt a, is answered with a text.
NotifyReply(q, a, text) ==
  /\ LoopIdle
  /\ Count(prompts, q, "notif", a) > 0
  /\ \E K \in {NotificationReplied(
               [KeyState EXCEPT !.prompts = Bump(@, q, "notif", a, -1)], q, a, text)} :
       SetKeyState(K) /\ Continue(K)
  /\ UNCHANGED storeVars
  /\ UNCHANGED ingestVars

\* A notification times out or is dismissed.
NotifyClosed(q, a) ==
  /\ LoopIdle
  /\ Count(prompts, q, "notif", a) > 0
  /\ \E K \in {NotificationClosed(
               [KeyState EXCEPT !.prompts = Bump(@, q, "notif", a, -1)], q)} :
       SetKeyState(K) /\ Continue(K)
  /\ UNCHANGED storeVars
  /\ UNCHANGED ingestVars

\* The notifier reports an error.
NotifyError(q, a) ==
  /\ LoopIdle
  /\ Count(prompts, q, "notif", a) > 0
  /\ \E K \in {NotificationFailed(
               [KeyState EXCEPT !.prompts = Bump(@, q, "notif", a, -1)], q, a)} :
       SetKeyState(K) /\ Continue(K)
  /\ UNCHANGED storeVars
  /\ UNCHANGED ingestVars

TermListeners == {r \in prompts : r.chan = "term"}

RECURSIVE EmitData(_, _, _)
EmitData(K, listeners, input) ==
  IF listeners = {} THEN K
  ELSE LET k == CHOOSE x \in listeners : TRUE
       IN EmitData(TerminalData(K, k.owner, k.attempt, k.n, input),
                   listeners \ {k}, input)

\* One line arrives on stdin: every once('data') listener gets it.
TerminalInput(input) ==
  /\ LoopIdle
  /\ TermListeners # {}
  /\ SetKeyThrows(Trim(input)) /\ Trim(input) # <<>> =>
       \A k \in TermListeners : k.attempt < MaxTermAttempt
  /\ \E K \in {EmitData([KeyState EXCEPT !.prompts = prompts \ TermListeners],
                        TermListeners, input)} :
       SetKeyState(K) /\ Continue(K)
  /\ UNCHANGED storeVars
  /\ UNCHANGED ingestVars

\* initialize() up to `await this.databaseExists()`.
InitEnter(c) ==
  /\ pc[c] = "init"
  /\ IF AlreadyOpen
       THEN /\ Return(c, "opened", db)
            /\ UNCHANGED storeVars
       ELSE /\ pc' = [pc EXCEPT ![c] = "open"]
            /\ isNew' = [isNew EXCEPT ![c] = ~DatabaseExists]
            /\ rawOpen' = rawOpen \ {db}
            /\ db' = NoHandle
            /\ UNCHANGED <<outcome, ret, site, gotKey, joined, file, initialized, logged>>
  /\ UNCHANGED keyVars
  /\ UNCHANGED ingestVars

\* new Database(dbPath), chmodSync, and applyEncryption up to its await.
OpenRaw(c, chmodOk) ==
  /\ pc[c] = "open"
  /\ LET created == IF file.st = "absent" THEN Empty ELSE file
     IN file' = IF isNew[c] /\ chmodOk THEN ChmodSync(created) ELSE created
  /\ IF isNew[c] /\ ~chmodOk
       THEN /\ Return(c, "permError", NoHandle)
            /\ UNCHANGED <<rawOpen, keyVars>>
       ELSE /\ rawOpen' = rawOpen \cup {c}
            /\ EnsureKeyIsAvailable(c, "apply")
            /\ UNCHANGED <<outcome, isNew, ret>>
  /\ UNCHANGED <<db, initialized, logged>>
  /\ UNCHANGED ingestVars

\* The rest of applyEncryption and of initialize(), with the key in hand.
Apply(c) ==
  /\ pc[c] = "apply"
  /\ IF PragmasSucceed(file, isNew[c], gotKey[c])
       THEN /\ db' = c
            /\ file' = InitializeDatabase(file, gotKey[c])
            /\ initialized' = TRUE
            /\ Return(c, "opened", c)
            /\ UNCHANGED <<rawOpen, keyVars, logged>>
       ELSE /\ SetKeyState(ClearKey(KeyState))
            /\ rawOpen' = rawOpen \ {c}
            /\ Return(c, "authError", NoHandle)
            /\ logged' = IF PragmaError(gotKey[c]) = <<>> THEN logged
                         ELSE logged \cup {[key |-> gotKey[c],
                                            text |-> PragmaError(gotKey[c])]}
            /\ UNCHANGED <<db, file, initialized>>
  /\ UNCHANGED ingestVars

\* ------------------------------------------------------------ the tables
\* Column values that stand for "nothing there".
NoTimestamp == 0     \* last_scraped_timestamp IS NULL
NoIdentifier == 0    \* a provider transaction without identifier
NoDate == 0          \* a provider transaction without processedDate
Null == "NULL"


\* Stored credentials texts, and JSON.parse on them.
ValidJson == {"{\"user\":\"u\"}"}
\* A parser that takes every text.
JsonParsesAnything(text) == TRUE
JsonParses(text) == text \in ValidJson

\* JSON.stringify of an array of strings, as a token sequence.
Stringify(items) == <<"[">> \o items \o <<"]">>

\* typeof tags === 'string' ? tags : JSON.stringify(tags || [])
TagsJson(tags) ==
  IF tags.kind = "string" THEN tags.items ELSE Stringify(tags.items)

\* The credential records upsertScraperCredential is called with: two
\* versions of the first source, one of the second.
UpsertInputs ==
  { [scraper_type |-> "hapoalim", friendly_name |-> "main",
     credentials |-> "{\"user\":\"u\"}", tags |-> [kind |-> "undefined", items |-> <<>>]],
    [scraper_type |-> "hapoalim", friendly_name |-> "main",
     credentials |-> "user=u", tags |-> [kind |-> "array", items |-> <<"card">>]],
    [scraper_type |-> "leumi", friendly_name |-> "main",
     credentials |-> "{\"user\":\"u\"}",
     tags |-> [kind |-> "string", items |-> <<"[", "card", "]">>]] }

\* The ids AUTOINCREMENT hands out: one per (scraper_type, friendly_name).
CredIds == 1..Cardinality({<<c.scraper_type, c.friendly_name>> : c \in UpsertInputs})

\* The tables gathered in one record.
Tables == [creds |-> creds, credSeq |-> credSeq, txns |-> txns, fresh |-> fresh]

SetTables(D) ==
  /\ creds' = D.creds
  /\ credSeq' = D.credSeq
  /\ txns' = D.txns
  /\ fresh' = D.fresh

\* The rows the UNIQUE(scraper_type, friendly_name) constraint matches.
Conflicting(D, c) ==
  {r \in D.creds : r.scraper_type = c.scraper_type /\ r.friendly_name = c.friendly_name}

\* An upsert written as INSERT OR REPLACE: the old row is dropped.
UpsertReplacing(D, c) ==
  [tables |-> [D EXCEPT !.creds = (@ \ Conflicting(D, c)) \cup
                 {[id |-> D.credSeq + 1, scraper_type |-> c.scraper_type,
                   friendly_name |-> c.friendly_name, credentials |-> c.credentials,
                   tags |-> TagsJson(c.tags), last_scraped_timestamp |-> NoTimestamp]},
               !.credSeq = @ + 1],
   id |-> D.credSeq + 1]

\* INSERT ... ON CONFLICT(scraper_type, friendly_name) DO UPDATE SET
\* credentials, tags RETURNING id
UpsertScraperCredential(D, c) ==
  IF Conflicting(D, c) = {}
    THEN [tables |-> [D EXCEPT !.creds = @ \cup
                        {[id |-> D.credSeq + 1, scraper_type |-> c.scraper_type,
                          friendly_name |-> c.friendly_name, credentials |-> c.credentials,
                          tags |-> TagsJson(c.tags), last_scraped_timestamp |-> NoTimestamp]},
                      !.credSeq = @ + 1],
          id |-> D.credSeq + 1]
    ELSE LET old == CHOOSE r \in Conflicting(D, c) : TRUE
         IN [tables |-> [D EXCEPT !.creds = (@ \ {old}) \cup
                           {[old EXCEPT !.credentials = c.credentials,
                                        !.tags = TagsJson(c.tags)]}],
             id |-> old.id]

\* ensureReady() / assertInitialized()
Ready == initialized /\ db # NoHandle

\* The columns of the transactions table.
TransactionColumns ==
  {"scraper_credential_id", "identifier", "type", "status", "date", "processedDate",
   "originalAmount", "originalCurrency", "chargedAmount", "chargedCurrency",
   "description", "memo", "category"}

SameIdentity(r, row) ==
  r.scraper_credential_id = row.scraper_credential_id /\ r.identifier = row.identifier

HasParent(D, row) == \E r \in D.creds : r.id = row.scraper_credential_id

\* INSERT INTO transactions (...) VALUES (...) RETURNING id
SaveTransaction(D, row) ==
  IF "id" \notin TransactionColumns
    THEN [tables |-> D, err |-> "no such column: id"]
  ELSE IF \E r \in D.txns : SameIdentity(r, row)
    THEN [tables |-> D, err |-> "UNIQUE constraint failed"]
  ELSE IF ~HasParent(D, row)
    THEN [tables |-> D, err |-> "FOREIGN KEY constraint failed"]
  ELSE [tables |-> [D EXCEPT !.txns = @ \cup {row}], err |-> "none"]

\* INSERT OR IGNORE INTO transactions, inside the per-transaction try/catch.
InsertOrIgnore(D, row) ==
  IF (\E r \in D.txns : SameIdentity(r, row)) \/ ~HasParent(D, row)
    THEN D.txns
    ELSE D.txns \cup {row}

\* `${Date.now()}-${Math.random()...}`: the n-th identifier made up.
Generated(n) == 0 - n

\* The row saveScrapedTransactions binds for a provider transaction.
ToRow(tx, credId, n) ==
  [scraper_credential_id |-> credId,
   identifier |-> IF tx.identifier = NoIdentifier THEN Generated(n) ELSE tx.identifier,
   date |-> tx.date,
   processedDate |-> IF tx.processedDate = NoDate THEN tx.date ELSE tx.processedDate,
   category |-> IF tx.category = "" THEN Null ELSE tx.category]

RECURSIVE SaveScrapedTransactions(_, _, _)
SaveScrapedTransactions(D, txs, credId) ==
  IF txs = <<>> THEN D
  ELSE LET tx == Head(txs)
           n == IF tx.identifier = NoIdentifier THEN D.fresh + 1 ELSE D.fresh
       IN SaveScrapedTransactions(
            [D EXCEPT !.txns = InsertOrIgnore(D, ToRow(tx, credId, n)), !.fresh = n],
            Tail(txs), credId)

\* insertMany(allTransactions): the loop of saveScrapedTransactions from
\* the i-th transaction on, where insertTx.run throws for the transactions
\* at the positions in thrown (a value the driver cannot bind, a store that
\* is busy or full); the catch inside the loop logs the error and goes on.
RECURSIVE InsertMany(_, _, _, _, _)
InsertMany(D, txs, i, credId, thrown) ==
  IF i > Len(txs) THEN D
  ELSE LET tx == txs[i]
           n == IF tx.identifier = NoIdentifier THEN D.fresh + 1 ELSE D.fresh
       IN InsertMany(
            [D EXCEPT !.txns = IF i \in thrown THEN @
                               ELSE InsertOrIgnore(D, ToRow(tx, credId, n)),
                      !.fresh = n],
            txs, i + 1, credId, thrown)

\* A latest date that falls back to the epoch's first second when there
\* is no transaction.
LatestDateOrSecond(txs) ==
  IF txs = <<>> THEN Second
  ELSE CHOOSE d \in {txs[i].date : i \in 1..Len(txs)} :
         \A i \in 1..Len(txs) : txs[i].date <= d

RECURSIVE GetLatestTransactionDate(_)
GetLatestTransactionDate(txs) ==
  IF txs = <<>> THEN NoDate
  ELSE LET rest == GetLatestTransactionDate(Tail(txs))
       IN IF Head(txs).date > rest THEN Head(txs).date ELSE rest

\* UPDATE scraper_credentials SET last_scraped_timestamp = ? WHERE id = ?
SetWatermark(rows, id, ts) ==
  {IF r.id = id THEN [r EXCEPT !.last_scraped_timestamp = ts] ELSE r : r \in rows}

\* SELECT ... FROM scraper_credentials, in rowid order.
RECURSIVE ById(_)
ById(rows) ==
  IF rows = {} THEN <<>>
  ELSE LET first == CHOOSE r \in rows : \A o \in rows : r.id <= o.id
       IN <<first>> \o ById(rows \ {first})

\* ---------------------------------------------------------- sqlValidation
\* A query text is a sequence of lexical units: a word (a maximal run of
\* \w characters, in lower case) or a single other character.
Quote == "'"
DQuote == "\""
Backslash == "\\"
Semicolon == ";"
Blank == " "
NonWord == {Quote, DQuote, Backslash, Semicolon, Blank, "(", ")", ",", "*", "--", ""}
IsWord(t) == t \notin NonWord

\* sql[i], or undefined past either end
At(sql, i) == IF i >= 1 /\ i <= Len(sql) THEN sql[i] ELSE ""

RECURSIVE TrimSqlLeft(_)
TrimSqlLeft(sql) ==
  IF sql # <<>> /\ Head(sql) = Blank THEN TrimSqlLeft(Tail(sql)) ELSE sql

RECURSIVE TrimSqlRight(_)
TrimSqlRight(sql) ==
  IF sql # <<>> /\ sql[Len(sql)] = Blank
    THEN TrimSqlRight(SubSeq(sql, 1, Len(sql) - 1)) ELSE sql

\* sql.trim()
TrimSql(sql) == TrimSqlRight(TrimSqlLeft(sql))

allowedTables == {"transactions", "scraper_credentials"}

\* The loop of containsUnquotedSemicolon from index i on.
RECURSIVE ScanFrom(_, _, _, _)
ScanFrom(sql, i, inSingleQuote, inDoubleQuote) ==
  IF i > Len(sql) THEN FALSE
  ELSE LET char == sql[i]
           prev == At(sql, i - 1)
           next == At(sql, i + 1)
       IN IF inSingleQuote
            THEN IF char = Quote /\ prev # Backslash
                   THEN IF next = Quote THEN ScanFrom(sql, i + 2, TRUE, FALSE)
                        ELSE ScanFrom(sql, i + 1, FALSE, FALSE)
                   ELSE ScanFrom(sql, i + 1, TRUE, FALSE)
          ELSE IF inDoubleQuote
            THEN IF char = DQuote /\ prev # Backslash
                   THEN IF next = DQuote THEN ScanFrom(sql, i + 2, FALSE, TRUE)
                        ELSE ScanFrom(sql, i + 1, FALSE, FALSE)
                   ELSE ScanFrom(sql, i + 1, FALSE, TRUE)
          ELSE IF char = Quote /\ prev # Backslash THEN ScanFrom(sql, i + 1, TRUE, FALSE)
          ELSE IF char = DQuote /\ prev # Backslash THEN ScanFrom(sql, i + 1, FALSE, TRUE)
          ELSE IF char = Semicolon THEN TRUE
          ELSE ScanFrom(sql, i + 1, FALSE, FALSE)

containsUnquotedSemicolon(sql) == ScanFrom(sql, 1, FALSE, FALSE)

\* The first index from i on that holds no blank (\s+ has been consumed).
RECURSIVE SkipBlanks(_, _)
SkipBlanks(sql, i) == IF At(sql, i) = Blank THEN SkipBlanks(sql, i + 1) ELSE i

\* PRAGMA_REGEX matched at i: the table name captured, or "" for no match.
\* /PRAGMA\s+(?:table_info|index_list)\(['"]?([\w]+)['"]?\)/i
PragmaAt(sql, i) ==
  LET f == SkipBlanks(sql, i + 1)
      n == IF At(sql, f + 2) \in {Quote, DQuote} THEN f + 3 ELSE f + 2
      e == IF At(sql, n + 1) \in {Quote, DQuote} THEN n + 2 ELSE n + 1
  IN IF /\ At(sql, i) = "pragma"
        /\ At(sql, i + 1) = Blank
        /\ At(sql, f) \in {"table_info", "index_list"}
        /\ At(sql, f + 1) = "("
        /\ IsWord(At(sql, n))
        /\ At(sql, e) = ")"
       THEN At(sql, n) ELSE ""

\* trimmedSql.match(PRAGMA_REGEX): the capture of the leftmost match.
PragmaMatch(sql) ==
  LET hits == {i \in 1..Len(sql) : PragmaAt(sql, i) # ""}
  IN IF hits = {} THEN ""
     ELSE PragmaAt(sql, CHOOSE i \in hits : \A j \in hits : i <= j)

\* trimmedSql.match(/from\s+([\w]+)/gi), each reduced to its table name.
FromTables(sql) ==
  {At(sql, SkipBlanks(sql, i + 1)) :
     i \in {k \in 1..Len(sql) : /\ sql[k] = "from"
                                /\ At(sql, k + 1) = Blank
                                /\ IsWord(At(sql, SkipBlanks(sql, k + 1)))}}

Rejected(reason) == [valid |-> FALSE, reason |-> reason]
Valid == [valid |-> TRUE, reason |-> ""]

\* validateSelectQuery(sql), ast being what parser.astify makes of the text:
\* a statement type, "array" for several statements, "error" for a throw.
validateSelectQuery(sql, ast) ==
  LET trimmedSql == TrimSql(sql) IN
  IF trimmedSql = <<>> THEN Rejected("Empty query")
  ELSE IF containsUnquotedSemicolon(trimmedSql)
    THEN Rejected("Multiple statements are not allowed")
  ELSE IF PragmaMatch(trimmedSql) # ""
    THEN IF PragmaMatch(trimmedSql) \notin allowedTables
           THEN Rejected("Access to table not allowed in PRAGMA")
           ELSE Valid
  ELSE IF FromTables(trimmedSql) \ allowedTables # {}
    THEN Rejected("Access to table(s) not allowed")
  ELSE IF ast = "error" THEN Rejected("Invalid SQL syntax")
  ELSE IF ast = "array" THEN Rejected("Only one statement is allowed")
  ELSE IF ast # "select" THEN Rejected("Only SELECT statements are allowed")
  ELSE Valid

\* ------------------------------------------------------- ScraperService
\* What the provider hands back for transactions.
TxPool ==
  { [identifier |-> 1, date |-> 1, processedDate |-> 2, category |-> "food"],
    [identifier |-> 1, date |-> 2, processedDate |-> NoDate, category |-> ""],
    [identifier |-> NoIdentifier, date |-> 2, processedDate |-> 1, category |-> ""] }

RECURSIVE SeqsUpTo(_, _)
SeqsUpTo(S, n) ==
  IF n = 0 THEN {<<>>}
  ELSE LET shorter == SeqsUpTo(S, n - 1)
       IN shorter \cup {Append(q, x) : q \in shorter, x \in S}

\* accounts.flatMap(account => account.txns || [])
Batches == SeqsUpTo(TxPool, MaxBatch)

\* What scrapeAccount returns: the provider's result, or its failure caught.
ProviderResults ==
  {[success |-> TRUE, accounts |-> b, errorType |-> ""] : b \in Batches}
    \cup {[success |-> FALSE, accounts |-> <<>>, errorType |-> "TIMEOUT"]}

NotServed == [success |-> FALSE, accounts |-> <<>>, errorType |-> "not served"]

Unidentified(txs) == Cardinality({i \in 1..Len(txs) : txs[i].identifier = NoIdentifier})

\* Instants are milliseconds since the epoch, as Date.getTime() gives them;
\* toISOString() and new Date(text) keep the milliseconds, so a stored
\* timestamp is the instant itself.  "Now" is not a number here: the instant
\* one calendar year before the call is kept as such.
NoStart == [from |-> "none", years |-> 0, ms |-> 0]

\* new Date(); setFullYear(getFullYear() - 1)
OneYearAgo == [from |-> "now", years |-> 0 - 1, ms |-> 0]

\* new Date(new Date(text).getTime() + 1000)
AfterWatermark(ts) == [from |-> "epoch", years |-> 0, ms |-> ts + Second]

\* A start boundary that is the watermark itself.
StartDateAtWatermark(config) ==
  IF config.last_scraped_timestamp # NoTimestamp
    THEN [from |-> "epoch", years |-> 0, ms |-> config.last_scraped_timestamp]
    ELSE OneYearAgo

\* startDate of a source
StartDate(config) ==
  IF config.last_scraped_timestamp # NoTimestamp
    THEN AfterWatermark(config.last_scraped_timestamp)
    ELSE OneYearAgo

Idle ==
  [pc |-> "idle", configs |-> <<>>, idx |-> 0, results |-> <<>>, ok |-> FALSE,
   startDate |-> NoStart]

\* An element of results that drops the error kind.
EntryWithoutErrorType(config, success, accounts, errorType) ==
  [scraper |-> config.scraper_type, friendlyName |-> config.friendly_name,
   success |-> success, accounts |-> accounts, errorType |-> ""]

\* One element of results.
Entry(config, success, accounts, errorType) ==
  [scraper |-> config.scraper_type, friendlyName |-> config.friendly_name,
   success |-> success, accounts |-> accounts, errorType |-> errorType]

\* An outer catch that reports the run as done, with no entry.
EmptySuccess(R, errorType) ==
  [R EXCEPT !.pc = "done", !.ok = TRUE, !.configs = <<>>, !.idx = 0,
            !.startDate = NoStart, !.results = <<>>]

\* The outer catch: the run is given up.
GlobalFailure(R, errorType) ==
  [R EXCEPT !.pc = "done", !.ok = FALSE, !.configs = <<>>, !.idx = 0,
            !.startDate = NoStart,
            !.results = <<[scraper |-> "global", friendlyName |-> "Global",
                           success |-> FALSE, accounts |-> <<>>,
                           errorType |-> errorType]>>]

\* A loop whose failed sources end the run.
PushOrGiveUp(R, entry) ==
  IF entry.success
    THEN [R EXCEPT !.results = Append(@, entry), !.idx = @ + 1]
    ELSE GlobalFailure(R, entry.errorType)

\* A loop that puts the newest entry first.
PushFront(R, entry) == [R EXCEPT !.results = <<entry>> \o @, !.idx = @ + 1]

\* results.push(...) and on to the next source.
Push(R, entry) == [R EXCEPT !.results = Append(@, entry), !.idx = @ + 1]

\* The loop from the current source up to the next provider call or the end.
RECURSIVE Advance(_)
Advance(R) ==
  IF R.pc = "done" THEN R
  ELSE IF R.idx > Len(R.configs)
    THEN [R EXCEPT !.pc = "done", !.ok = TRUE, !.configs = <<>>, !.idx = 0,
                   !.startDate = NoStart]
  ELSE IF ~JsonParses(R.configs[R.idx].credentials)
    THEN Advance(Push(R, Entry(R.configs[R.idx], FALSE, <<>>, "CredentialsError")))
  ELSE [R EXCEPT !.pc = "scraping", !.startDate = StartDate(R.configs[R.idx])]

\* The handle ScraperService captured is an open connection.
ScraperDbOpen == scraperDb \in rawOpen

\* fetchAllTransactions() up to its first provider call.
FetchAllTransactions ==
  /\ run.pc \in {"idle", "done"}
  /\ run' = IF ~ScraperDbOpen THEN GlobalFailure(Idle, "TypeError")
            ELSE IF creds = {} THEN GlobalFailure(Idle, "Error")
            ELSE Advance([Idle EXCEPT !.pc = "loop", !.configs = ById(creds), !.idx = 1])
  /\ UNCHANGED <<keyVars, callVars, storeVars, tableVars, scraperDb, other, served, last, answer>>

\* The provider call of the current source returns res; the loop goes on
\* up to the next provider call or the end.
ScrapeReturns(res) ==
  /\ run.pc = "scraping"
  /\ LET config == run.configs[run.idx]
         latestDate == GetLatestTransactionDate(res.accounts)
     IN IF res.success /\ ScraperDbOpen
          THEN /\ fresh + Unidentified(res.accounts) <= MaxFresh
               /\ \E D \in {SaveScrapedTransactions(Tables, res.accounts, config.id)} :
                    SetTables([D EXCEPT !.creds =
                      IF latestDate # NoDate THEN SetWatermark(@, config.id, latestDate)
                      ELSE @])
               /\ run' = Advance(Push(run, Entry(config, TRUE, res.accounts, "")))
          ELSE /\ run' = Advance(Push(run, Entry(config, FALSE, <<>>,
                           IF res.success THEN "TypeError" ELSE res.errorType)))
               /\ UNCHANGED tableVars
  /\ UNCHANGED <<keyVars, callVars, storeVars, scraperDb, other, last, answer>>

\* A provider whose answers vary from call to call.
Scrape(res) == ScrapeReturns(res) /\ UNCHANGED served

\* A provider whose result set does not change: each source is answered as
\* it was the first time.
ScrapeUnchanged(res) ==
  /\ run.pc = "scraping"
  /\ served[run.configs[run.idx].id] \in {NotServed, res}
  /\ ScrapeReturns(res)
  /\ served' = [served EXCEPT ![run.configs[run.idx].id] = res]

\* ------------------------------------------------ the database's own view
\* SQLite's tokenizer: a quote opens a literal that runs to the next quote
\* of its kind that is not doubled, a backslash is an ordinary character,
\* "--" starts a comment.  TRUE when a semicolon stands outside all of them.
RECURSIVE SeparatorFrom(_, _, _)
SeparatorFrom(sql, i, open) ==
  IF i > Len(sql) THEN FALSE
  ELSE IF open = ""
    THEN IF sql[i] \in {Quote, DQuote} THEN SeparatorFrom(sql, i + 1, sql[i])
         ELSE IF sql[i] = "--" THEN FALSE
         ELSE IF sql[i] = Semicolon THEN TRUE
         ELSE SeparatorFrom(sql, i + 1, "")
  ELSE IF sql[i] = open
    THEN IF At(sql, i + 1) = open THEN SeparatorFrom(sql, i + 2, open)
         ELSE SeparatorFrom(sql, i + 1, "")
  ELSE SeparatorFrom(sql, i + 1, open)

HasSeparator(sql) == SeparatorFrom(sql, 1, "")

StatementWords == {"select", "pragma", "delete", "drop"}

\* The statement a text begins with.
StatementType(sql) ==
  IF At(TrimSql(sql), 1) \in StatementWords THEN At(TrimSql(sql), 1) ELSE "error"

\* Table names a statement reads or writes: after FROM, JOIN or a comma,
\* bare or quoted, and the argument of a PRAGMA.
ReferencedTables(sql) ==
  LET name(i) == LET f == SkipBlanks(sql, i + 1)
                 IN IF At(sql, f) \in {Quote, DQuote} THEN At(sql, f + 1) ELSE At(sql, f)
  IN {name(i) : i \in {k \in 1..Len(sql) : sql[k] \in {"from", "join", ",", "("}}}
       \ NonWord

\* Query texts a client sends.
Statements ==
  { <<"select", Blank, "*", Blank, "from", Blank, "transactions">>,
    <<Blank, "select", Blank, "*", Blank, "from", Blank, "scraper_credentials", Blank>>,
    <<"select", Blank, "*", Blank, "from", Blank, "users">>,
    <<"select", Blank, "*", Blank, "from", Blank, "transactions", Semicolon, Blank,
      "drop", Blank, "table", Blank, "transactions">>,
    <<"select", Blank, "*", Blank, "from", Blank, "transactions", Blank, "where",
      Blank, "memo", Blank, "is", Blank, Quote, "a", Semicolon, "b", Quote>>,
    <<"select", Blank, Quote, Backslash, Quote, Semicolon, Blank,
      "drop", Blank, "table", Blank, "transactions", Blank, "--", Quote>>,
    <<"select", Blank, "*", Blank, "from", Blank, "transactions", Blank,
      "join", Blank, "sqlite_master">>,
    <<"select", Blank, "*", Blank, "from", Blank, "transactions", ",", Blank,
      "sqlite_master">>,
    <<"select", Blank, "*", Blank, "from", Blank, DQuote, "sqlite_master", DQuote>>,
    <<"delete", Blank, "from", Blank, "transactions">>,
    <<"delete", Blank, "from", Blank, "transactions", Blank, "returning", Blank, "*",
      Blank, "--", Blank, "pragma", Blank, "table_info", "(", "transactions", ")">>,
    <<"pragma", Blank, "table_info", "(", "transactions", ")">>,
    <<"pragma", Blank, "index_list", "(", Quote, "scraper_credentials", Quote, ")">>,
    <<"pragma", Blank, "table_info", "(", "sqlite_master", ")">> }

\* Short texts over the characters the scanner tells apart.
ScannerTexts == SeqsUpTo({Quote, Backslash, Semicolon, "select"}, MaxQueryLen)

Queries == Statements \cup ScannerTexts

\* What parser.astify(text, {database: 'SQLite'}) can make of a text.  The
\* grammar is the library's: its outcome is known for the plain statements
\* above, and left open for a text with a backslash or an odd shape.
Astify(sql) ==
  IF sql \in {TrimSql(st) : st \in Statements} /\ \A i \in 1..Len(sql) : sql[i] # Backslash
    THEN {IF HasSeparator(sql) THEN "array" ELSE StatementType(sql)}
    ELSE {"error", "array"} \cup
           (IF StatementType(sql) = "select" THEN {"select"} ELSE {})

\* db.prepare(query).all(): prepare throws on a second statement, all()
\* throws before running a statement that returns no rows; DELETE ...
\* RETURNING returns rows and runs.  syntaxOk is the database's verdict on
\* a text that is none of the plain statements.
Execute(D, sql, syntaxOk) ==
  LET t == TrimSql(sql) IN
  IF HasSeparator(t) THEN [tables |-> D, err |-> "more than one statement"]
  ELSE IF sql \notin Statements /\ ~syntaxOk
    THEN [tables |-> D, err |-> "syntax error"]
  ELSE IF StatementType(t) \in {"select", "pragma"}
    THEN [tables |-> D, err |-> "none"]
  ELSE IF StatementType(t) = "delete" /\ \E i \in 1..Len(t) : t[i] = "returning"
    THEN [tables |-> [D EXCEPT !.txns = IF "transactions" \in FromTables(t) THEN {} ELSE @],
          err |-> "none"]
  ELSE [tables |-> D, err |-> "This statement does not return data"]

NoAnswer ==
  [query |-> <<>>, valid |-> FALSE, reason |-> "", passed |-> FALSE,
   success |-> FALSE, error |-> ""]

\* dbService.executeSafeSelectQuery(query)
ExecuteSafeSelectQuery(query, ast, syntaxOk) ==
  /\ LET validation == validateSelectQuery(query, ast)
     IN IF ~validation.valid
          THEN /\ answer' = [query |-> query, valid |-> FALSE,
                             reason |-> validation.reason, passed |-> FALSE,
                             success |-> FALSE, error |-> validation.reason]
               /\ UNCHANGED tableVars
        ELSE IF db = NoHandle
          THEN /\ answer' = [query |-> query, valid |-> TRUE, reason |-> "",
                             passed |-> FALSE, success |-> FALSE, error |-> "TypeError"]
               /\ UNCHANGED tableVars
        ELSE \E X \in {Execute(Tables, query, syntaxOk)} :
               /\ answer' = [query |-> query, valid |-> TRUE, reason |-> "",
                             passed |-> TRUE, success |-> X.err = "none",
                             error |-> IF X.err = "none" THEN "" ELSE X.err]
               /\ SetTables(X.tables)
  /\ UNCHANGED <<keyVars, callVars, storeVars, scraperDb, run, other, served, last>>

\* ----------------------------------------------- calls of the store's API
NoCall == [op |-> "none", err |-> "none", id |-> 0]

\* dbService.upsertScraperCredential(c)
Upsert(c) ==
  /\ IF Ready
       THEN \E U \in {UpsertScraperCredential(Tables, c)} :
              /\ SetTables(U.tables)
              /\ last' = [op |-> "upsert", err |-> "none", id |-> U.id]
       ELSE /\ last' = [op |-> "upsert", err |-> "not initialized", id |-> 0]
            /\ UNCHANGED tableVars
  /\ UNCHANGED <<keyVars, callVars, storeVars, scraperDb, run, other, served, answer>>

\* dbService.saveTransaction(row)
Save(row) ==
  /\ IF Ready
       THEN \E S \in {SaveTransaction(Tables, row)} :
              /\ SetTables(S.tables)
              /\ last' = [op |-> "saveTransaction", err |-> S.err, id |-> 0]
       ELSE /\ last' = [op |-> "saveTransaction", err |-> "not initialized", id |-> 0]
            /\ UNCHANGED tableVars
  /\ UNCHANGED <<keyVars, callVars, storeVars, scraperDb, run, other, served, answer>>

\* A delete that leaves the transactions of the source behind.
DeleteWithoutCascade(D, id) == [D EXCEPT !.creds = {r \in @ : r.id # id}]

\* DELETE FROM scraper_credentials WHERE id = ?, with ON DELETE CASCADE
DeleteScraperCredentials(D, id) ==
  [D EXCEPT !.creds = {r \in @ : r.id # id},
            !.txns = {t \in @ : t.scraper_credential_id # id}]

\* dbService.deleteScraperCredentials(scraperId): the promise resolves in
\* either case; id holds result.changes, 0 standing for false.
Delete(id) ==
  /\ IF Ready
       THEN /\ SetTables(DeleteScraperCredentials(Tables, id))
            /\ last' = [op |-> "delete", err |-> "none",
                        id |-> Cardinality({r \in creds : r.id = id})]
       ELSE /\ last' = [op |-> "delete", err |-> "none", id |-> 0]
            /\ UNCHANGED tableVars
  /\ UNCHANGED <<keyVars, callVars, storeVars, scraperDb, run, other, served, answer>>

\* dbService.updateLastScrapedTimestamp(friendlyName, timestamp)
UpdateLastScrapedTimestamp(friendlyName, timestamp) ==
  /\ IF Ready
       THEN /\ creds' = {IF r.friendly_name = friendlyName
                           THEN [r EXCEPT !.last_scraped_timestamp = timestamp]
                           ELSE r : r \in creds}
            /\ last' = [op |-> "updateLastScrapedTimestamp", err |-> "none", id |-> 0]
            /\ UNCHANGED <<credSeq, txns, fresh>>
       ELSE /\ last' = [op |-> "updateLastScrapedTimestamp",
                        err |-> "not initialized", id |-> 0]
            /\ UNCHANGED tableVars
  /\ UNCHANGED <<keyVars, callVars, storeVars, scraperDb, run, other, served, answer>>

\* dbService.close()
Close ==
  /\ IF Ready
       THEN /\ rawOpen' = rawOpen \ {db}
            /\ db' = NoHandle
            /\ initialized' = FALSE
            /\ last' = [op |-> "close", err |-> "none", id |-> 0]
       ELSE /\ last' = [op |-> "close", err |-> "not initialized", id |-> 0]
            /\ UNCHANGED <<rawOpen, db, initialized>>
  /\ UNCHANGED <<keyVars, callVars, file, logged, tableVars, scraperDb, run, other, served, answer>>

\* The rows saveTransaction is called with.
SaveInputs == {ToRow(tx, id, 0) : tx \in {t \in TxPool : t.identifier # NoIdentifier},
                                  id \in CredIds}


\* The tables of a store just created, and no ingestion under way.
InitTables ==
  /\ logged = {}
  /\ creds = {}
  /\ credSeq = 0
  /\ txns = {}
  /\ fresh = 0
  /\ run = Idle
  /\ other = Idle
  /\ served = [i \in CredIds |-> NotServed]
  /\ last = NoCall
  /\ answer = NoAnswer

vars == <<keyVars, callVars, storeVars, ingestVars>>

Init ==
  /\ currentKey = NoKey
  /\ isPrompting = FALSE
  /\ prompts = {}
  /\ seqState = [q \in Seqs |-> "none"]
  /\ seqKey = [q \in Seqs |-> NoKey]
  /\ asked = [q \in Seqs |-> {}]
  /\ pc = [c \in Callers |-> "start"]
  /\ site = [c \in Callers |-> "withDb"]
  /\ gotKey = [c \in Callers |-> NoKey]
  /\ isNew = [c \in Callers |-> FALSE]
  /\ outcome = [c \in Callers |-> "none"]
  /\ ret = [c \in Callers |-> NoHandle]
  /\ joined = [c \in Callers |-> {}]
  /\ file \in {Absent, Keyed(GoodKey)}
  /\ rawOpen = {}
  /\ db = NoHandle
  /\ initialized = FALSE
  /\ scraperDb = NoHandle
  /\ InitTables

Next ==
  \/ \E c \in Callers : Call(c)
  \/ \E c \in Callers : Open(c)
  \/ \E c \in Callers : Poll(c)
  \/ \E q \in Seqs, a \in 0..(maxRetries - 1), text \in Replies : NotifyReply(q, a, text)
  \/ \E q \in Seqs, a \in 0..(maxRetries - 1) : NotifyClosed(q, a)
  \/ \E q \in Seqs, a \in 0..(maxRetries - 1) : NotifyError(q, a)
  \/ \E input \in Replies : TerminalInput(input)
  \/ \E c \in Callers : InitEnter(c)
  \/ \E c \in Callers, chmodOk \in BOOLEAN : OpenRaw(c, chmodOk)
  \/ \E c \in Callers : Apply(c)

Spec == Init /\ [][Next]_vars

\* The server with a user who types a key that ends with an apostrophe.
SpecLog ==
  Init /\ [][
      LET typed == {<<>>, GoodKey, <<2, 2, 2, 2, 2, Apostrophe>>}
      IN \/ \E c \in Callers : Call(c)
         \/ \E c \in Callers : Open(c)
         \/ \E c \in Callers : Poll(c)
         \/ \E q \in Seqs, a \in 0..(maxRetries - 1), text \in typed : NotifyReply(q, a, text)
         \/ \E q \in Seqs, a \in 0..(maxRetries - 1) : NotifyClosed(q, a)
         \/ \E q \in Seqs, a \in 0..(maxRetries - 1) : NotifyError(q, a)
         \/ \E input \in typed : TerminalInput(input)
         \/ \E c \in Callers : InitEnter(c)
         \/ \E c \in Callers, chmodOk \in BOOLEAN : OpenRaw(c, chmodOk)
         \/ \E c \in Callers : Apply(c) ]_vars

\* ---------------------------------------------------- the opened store
\* The state once ingestCredentials has set the key and opened the store,
\* and ScraperService.ts has been loaded.
InitOpened ==
  /\ currentKey = GoodKey
  /\ isPrompting = FALSE
  /\ prompts = {}
  /\ seqState = [q \in Seqs |-> "none"]
  /\ seqKey = [q \in Seqs |-> NoKey]
  /\ asked = [q \in Seqs |-> {}]
  /\ pc = [c \in Callers |-> IF c = 1 THEN "done" ELSE "start"]
  /\ site = [c \in Callers |-> "withDb"]
  /\ gotKey = [c \in Callers |-> NoKey]
  /\ isNew = [c \in Callers |-> FALSE]
  /\ outcome = [c \in Callers |-> IF c = 1 THEN "opened" ELSE "none"]
  /\ ret = [c \in Callers |-> IF c = 1 THEN 1 ELSE NoHandle]
  /\ joined = [c \in Callers |-> {}]
  /\ file = Keyed(GoodKey)
  /\ rawOpen = {1}
  /\ db = 1
  /\ initialized = TRUE
  /\ scraperDb = 1
  /\ InitTables

NextIngest ==
  \/ \E c \in UpsertInputs : Upsert(c)
  \/ \E row \in SaveInputs : Save(row)
  \/ Close
  \/ FetchAllTransactions
  \/ \E res \in ProviderResults : Scrape(res)

SpecIngest == InitOpened /\ [][NextIngest]_vars

NextRerun ==
  \/ \E c \in UpsertInputs : Upsert(c)
  \/ \E row \in SaveInputs : Save(row)
  \/ Close
  \/ FetchAllTransactions
  \/ \E res \in ProviderResults : ScrapeUnchanged(res)

SpecRerun == InitOpened /\ [][NextRerun]_vars

\* ------------------------------------------------------- ad-hoc queries
\* An opened store that holds one source and one transaction of it, as an
\* ingestion run leaves it.
InitStocked ==
  /\ logged = {}
  /\ currentKey = GoodKey
  /\ isPrompting = FALSE
  /\ prompts = {}
  /\ seqState = [q \in Seqs |-> "none"]
  /\ seqKey = [q \in Seqs |-> NoKey]
  /\ asked = [q \in Seqs |-> {}]
  /\ pc = [c \in Callers |-> IF c = 1 THEN "done" ELSE "start"]
  /\ site = [c \in Callers |-> "withDb"]
  /\ gotKey = [c \in Callers |-> NoKey]
  /\ isNew = [c \in Callers |-> FALSE]
  /\ outcome = [c \in Callers |-> IF c = 1 THEN "opened" ELSE "none"]
  /\ ret = [c \in Callers |-> IF c = 1 THEN 1 ELSE NoHandle]
  /\ joined = [c \in Callers |-> {}]
  /\ file = Keyed(GoodKey)
  /\ rawOpen = {1}
  /\ db = 1
  /\ initialized = TRUE
  /\ scraperDb = 1
  /\ \E c \in {u \in UpsertInputs : u.scraper_type = "leumi"},
        tx \in {t \in TxPool : t.category # ""} :
       /\ creds = SetWatermark(UpsertScraperCredential(
                     [creds |-> {}, credSeq |-> 0, txns |-> {}, fresh |-> 0], c).tables.creds,
                     1, tx.date)
       /\ txns = {ToRow(tx, 1, 0)}
  /\ credSeq = 1
  /\ fresh = 0
  /\ run = Idle
  /\ other = Idle
  /\ served = [i \in CredIds |-> NotServed]
  /\ last = NoCall
  /\ answer = NoAnswer

\* ------------------------------------------------------------- the tools
\* What a tool handler comes to: a result object returned, or an Error thrown.
\* The callback registerTool hands to server.tool: the result as JSON text,
\* or an McpError thrown in place of the handler's error.
RegisterTool(handled) ==
  IF handled.kind = "throw"
    THEN [kind |-> "throw", error |-> "McpError", message |-> handled.message]
    ELSE [kind |-> "return", body |-> handled.body]

\* withDb(fn) for a call that ended with outcome o: fn runs only when
\* ensureKeyIsAvailable and initialize() have both returned.
WithDb(o, handled) ==
  IF o # "opened" THEN [kind |-> "throw", message |-> o] ELSE handled

\* The sqlQuery handler's callback, given what executeSafeSelectQuery returned.
SqlQueryHandler(result) ==
  IF ~result.success
    THEN [kind |-> "throw", message |-> result.error]
    ELSE [kind |-> "return", body |-> [success |-> TRUE, data |-> "rows"]]

\* ------------------------------------------------- the coordinator's API
\* The texts a client passes to setKey: blanks and one other character.
KeyInputs == SeqsUpTo({SP, 1}, MaxKeyLen)

\* encryptionKeyService.setKey(key), as ingestCredentials calls it
SetKeyCall(key) ==
  /\ IF SetKeyThrows(key)
       THEN /\ last' = [op |-> "setKey", err |-> "validation", id |-> 0]
            /\ UNCHANGED keyVars
       ELSE /\ SetKeyState(SetKey(KeyState, key))
            /\ last' = [op |-> "setKey", err |-> "none", id |-> 0]
  /\ UNCHANGED <<callVars, storeVars, tableVars, scraperDb, run, other, served, answer>>

\* encryptionKeyService.clearKey()
ClearKeyCall ==
  /\ SetKeyState(ClearKey(KeyState))
  /\ last' = [op |-> "clearKey", err |-> "none", id |-> 0]
  /\ UNCHANGED <<callVars, storeVars, tableVars, scraperDb, run, other, served, answer>>

NextKey ==
  \/ \E key \in KeyInputs : SetKeyCall(key)
  \/ ClearKeyCall

SpecKey == Init /\ [][NextKey]_vars

\* ------------------------------------------------------- the store's API
\* A process that finds the store file of an earlier one: the store is
\* either not opened yet or has been opened by a first call.
InitStore ==
  /\ logged = {}
  /\ currentKey = GoodKey
  /\ isPrompting = FALSE
  /\ prompts = {}
  /\ seqState = [q \in Seqs |-> "none"]
  /\ seqKey = [q \in Seqs |-> NoKey]
  /\ asked = [q \in Seqs |-> {}]
  /\ site = [c \in Callers |-> "withDb"]
  /\ gotKey = [c \in Callers |-> NoKey]
  /\ isNew = [c \in Callers |-> FALSE]
  /\ joined = [c \in Callers |-> {}]
  /\ file = Keyed(GoodKey)
  /\ \E opened \in BOOLEAN :
       /\ pc = [c \in Callers |-> IF opened /\ c = 1 THEN "done" ELSE "start"]
       /\ outcome = [c \in Callers |-> IF opened /\ c = 1 THEN "opened" ELSE "none"]
       /\ ret = [c \in Callers |-> IF opened /\ c = 1 THEN 1 ELSE NoHandle]
       /\ rawOpen = IF opened THEN {1} ELSE {}
       /\ db = IF opened THEN 1 ELSE NoHandle
       /\ initialized = opened
       /\ scraperDb = db
  /\ \E c \in {u \in UpsertInputs : u.scraper_type = "leumi"},
        tx \in {t \in TxPool : t.category # ""} :
       /\ creds = SetWatermark(UpsertScraperCredential(
                     [creds |-> {}, credSeq |-> 0, txns |-> {}, fresh |-> 0], c).tables.creds,
                     1, tx.date)
       /\ txns = {ToRow(tx, 1, 0)}
  /\ credSeq = 1
  /\ fresh = 0
  /\ run = Idle
  /\ other = Idle
  /\ served = [i \in CredIds |-> NotServed]
  /\ last = NoCall
  /\ answer = NoAnswer

NextStore ==
  \/ \E c \in UpsertInputs : Upsert(c)
  \/ \E row \in SaveInputs : Save(row)
  \/ \E id \in CredIds : Delete(id)
  \/ \E r \in UpsertInputs, ts \in {tx.date : tx \in TxPool} :
       UpdateLastScrapedTimestamp(r.friendly_name, ts)
  \/ Close
  \/ \E c \in Callers : Open(c)
  \/ \E c \in Callers : InitEnter(c)
  \/ \E c \in Callers, chmodOk \in BOOLEAN : OpenRaw(c, chmodOk)
  \/ \E c \in Callers : Apply(c)

SpecStore == InitStore /\ [][NextStore]_vars

\* ----------------------------------------------------- ingestCredentials
\* The parsed credentials file: JSON values with their type, objects by
\* their keys (all of them non-empty strings).
CredentialFiles ==
  LET text(v) == [t |-> "string", v |-> v, keys |-> {}]
      object(keys) == [t |-> "object", v |-> "", keys |-> keys]
      payloads == {object({"userCode", "password"}), object({"username", "password"}),
                   object({}), text("secret")}
      types == {text("hapoalim"), text("leumi"), text("nosuchbank"),
                [t |-> "number", v |-> "7", keys |-> {}]}
  IN SeqsUpTo([scraper_type : types, friendly_name : {text("main")},
               credentials : payloads], MaxFile)

\* CredentialsSchema.safeParse(jsonData).success
CredentialsSchema(data) ==
  \A i \in 1..Len(data) :
    /\ data[i].scraper_type.t = "string"
    /\ data[i].friendly_name.t = "string"
    /\ data[i].credentials.t = "object"

\* scraperConfigSchema.safeParse(record).success: the union of the
\* providers, each with the fields its credentials must carry.
scraperConfigSchema(record) ==
  LET userPass == {"username", "password"}
      idNum == {"id", "password", "num"}
      required ==
        [hapoalim |-> {"userCode", "password"}, leumi |-> userPass,
         discount |-> idNum, mercantile |-> idNum, mizrahi |-> userPass,
         beinleumi |-> userPass, massad |-> userPass, otsarHahayal |-> userPass,
         visaCal |-> userPass, max |-> userPass,
         isracard |-> {"id", "card6Digits", "password"},
         amex |-> {"username", "card6Digits", "password"},
         yahav |-> {"username", "password", "nationalID"},
         beyhadBishvilha |-> {"id", "password"}]
  IN /\ record.scraper_type.t = "string"
     /\ record.scraper_type.v # ""
     /\ record.friendly_name.t = "string"
     /\ record.friendly_name.v # ""
     /\ record.scraper_type.v \in DOMAIN required
     /\ record.credentials.t = "object"
     /\ required[record.scraper_type.v] \subseteq record.credentials.keys

\* ingestCredentials(filePath, key) from the parsed file on, once
\* dbService.initialize() has resolved (the process exits otherwise):
\* the file is validated, then every record is upserted in turn.
IngestCredentials(data) ==
  /\ Ready
  /\ IF CredentialsSchema(data)
       THEN LET stringify(o) ==
                  IF o.keys = {} THEN "{}"
                  ELSE IF "userCode" \in o.keys
                    THEN "{\"userCode\":\"u\",\"password\":\"p\"}"
                  ELSE "{\"username\":\"u\",\"password\":\"p\"}"
                arg(r) == [scraper_type |-> r.scraper_type.v,
                           friendly_name |-> r.friendly_name.v,
                           credentials |-> stringify(r.credentials),
                           tags |-> [kind |-> "string", items |-> Stringify(<<>>)]]
                after[i \in 0..Len(data)] ==
                  IF i = 0 THEN Tables
                  ELSE UpsertScraperCredential(after[i - 1], arg(data[i])).tables
            IN /\ SetTables(after[Len(data)])
               /\ last' = [op |-> "ingestCredentials", err |-> "none", id |-> Len(data)]
       ELSE /\ last' = [op |-> "ingestCredentials", err |-> "Invalid credentials file",
                        id |-> 0]
            /\ UNCHANGED tableVars
  /\ UNCHANGED <<keyVars, callVars, storeVars, scraperDb, run, other, served, answer>>

SpecCli == InitOpened /\ [][\E data \in CredentialFiles : IngestCredentials(data)]_vars

\* Sources added and deleted while ingestion runs go on; AUTOINCREMENT
\* hands out ids up to MaxCredSeq.
NextOwn ==
  \/ \E c \in UpsertInputs :
       /\ Conflicting(Tables, c) # {} \/ credSeq < MaxCredSeq
       /\ Upsert(c)
  \/ \E id \in 1..MaxCredSeq : Delete(id)
  \/ FetchAllTransactions
  \/ \E res \in ProviderResults : Scrape(res)

SpecOwn == InitOpened /\ [][NextOwn]_vars

\* The outcomes of the parser and of the database that a call can meet:
\* one stands for all where the call does not get that far.
ParserOutcomes(query) ==
  IF validateSelectQuery(query, "select") = Valid /\ PragmaMatch(TrimSql(query)) = ""
    THEN Astify(TrimSql(query)) ELSE {"error"}

DatabaseVerdicts(query, ast) ==
  IF query \notin Statements /\ validateSelectQuery(query, ast) = Valid
    THEN BOOLEAN ELSE {TRUE}

NextQuery ==
  \/ \E query \in Queries : \E ast \in ParserOutcomes(query) :
       \E syntaxOk \in DatabaseVerdicts(query, ast) :
         ExecuteSafeSelectQuery(query, ast, syntaxOk)
  \/ Close

SpecQuery == InitStocked /\ [][NextQuery]_vars

\* ---------------------------------------------------------------- claims

\* C1: callers that find a prompt in flight start no second sequence, and
\* when the sequence they waited on has resolved with key k, their own
\* ensureKeyIsAvailable call resolves with k.
C1_OneSequenceSharedKey ==
  [][ /\ \A q \in Seqs :
           (seqState[q] # "active" /\ seqState'[q] = "active") => ActiveSeqs = {}
      /\ \A c \in Callers :
           (pc[c] = "polling" /\ pc'[c] # "polling") =>
             \A q \in joined[c] :
               seqState[q] = "resolved" =>
                 (pc'[c] # "done" /\ gotKey'[c] = seqKey[q]) ]_vars

\* C2: the step in which a prompt sequence fails leaves no prompt marked
\* in flight.
C2_FailedSequenceResetsPrompting ==
  [][ \A q \in Seqs :
        (seqState[q] = "active" /\ seqState'[q] = "rejected") => ~isPrompting' ]_vars

\* C3: once every sequence a waiter waited on has ended, the waiter's next
\* check releases it (it does not keep waiting).
C3_WaitersReleased ==
  \A c \in Callers :
    (pc[c] = "polling" /\ joined[c] # {} /\ joined[c] \cap ActiveSeqs = {})
      => CheckOutcome # "wait"

\* C4: initialize() against an existing store with a key that is not the
\* store's fails with the authentication error, clears the coordinator's
\* key, closes its raw handle and leaves the store as unopened as it was.
C4_WrongKeyFailsAndClears ==
  [][ \A c \in Callers :
        (/\ pc[c] = "apply" /\ pc'[c] = "done"
         /\ ~isNew[c] /\ file.st = "keyed" /\ gotKey[c] # file.key)
        => /\ outcome'[c] = "authError"
           /\ currentKey' = NoKey
           /\ c \notin rawOpen'
           /\ ret'[c] = NoHandle
           /\ db' = db /\ initialized' = initialized /\ file' = file ]_vars

\* A call has failed on a wrong key: no key is left and the store is unopened.
C4_Witness ==
  \E c \in Callers :
    /\ outcome[c] = "authError"
    /\ currentKey = NoKey
    /\ ~initialized /\ db = NoHandle /\ rawOpen = {}
    /\ file = Keyed(GoodKey)

\* C5: at most one raw handle to the store is open at any time, and all
\* initialize() calls that succeed return the same handle.
C5_SingleHandle ==
  /\ Cardinality(rawOpen) <= 1
  /\ \A c, d \in Callers :
       (outcome[c] = "opened" /\ outcome[d] = "opened") => ret[c] = ret[d]

\* C6: initialize() on an open store returns the existing handle and
\* changes neither the store nor the coordinator.
C6_OpenIsIdempotent ==
  [][ \A c \in Callers :
        (pc[c] = "init" /\ pc'[c] # "init" /\ initialized /\ db # NoHandle)
        => /\ pc'[c] = "done"
           /\ outcome'[c] = "opened"
           /\ ret'[c] = db
           /\ UNCHANGED <<storeVars, keyVars>> ]_vars

\* A call was handed the handle another call had opened.
C6_Witness ==
  \E c \in Callers :
    /\ outcome[c] = "opened"
    /\ ret[c] # c
    /\ ret[c] = db
    /\ initialized

\* C7: saveTransaction for an identity that is already stored returns
\* without error and leaves the transactions table as it was.
C7_DuplicateSaveIsSilent ==
  [][ \A row \in SaveInputs :
        (Save(row) /\ Ready /\ \E r \in txns : SameIdentity(r, row))
        => (last'.err = "none" /\ txns' = txns) ]_vars

\* C8: when a source is answered again exactly as it was answered before,
\* storing its transactions leaves the number of rows unchanged.
C8_RerunAddsNoRows ==
  [][ \A res \in ProviderResults :
        (ScrapeUnchanged(res) /\ served[run.configs[run.idx].id] = res)
        => Cardinality(txns') = Cardinality(txns) ]_vars

\* C9: upsertScraperCredential on an existing (scraper_type, friendly_name)
\* returns the existing row's id, replaces its credentials and tags, adds
\* no row, and leaves every row's last_scraped_timestamp and every
\* transaction as they were.
C9_UpsertKeepsIdAndWatermarks ==
  [][ \A c \in UpsertInputs :
        (Ready /\ Conflicting(Tables, c) # {} /\ last'.op = "upsert" /\ Upsert(c))
        => \E old \in Conflicting(Tables, c) :
             /\ last'.err = "none"
             /\ last'.id = old.id
             /\ \E new \in creds' :
                  /\ new.id = old.id
                  /\ new.scraper_type = c.scraper_type
                  /\ new.friendly_name = c.friendly_name
                  /\ new.credentials = c.credentials
                  /\ new.tags = TagsJson(c.tags)
             /\ Cardinality(creds') = Cardinality(creds)
             /\ \A r \in creds : \E n \in creds' :
                  n.id = r.id /\ n.last_scraped_timestamp = r.last_scraped_timestamp
             /\ txns' = txns ]_vars

\* A source that has a watermark carries the credentials of a later upsert.
C9_Witness ==
  /\ last.op = "upsert"
  /\ last.err = "none"
  /\ Cardinality(creds) = 2
  /\ \A r \in creds : r.last_scraped_timestamp # NoTimestamp
  /\ \E r \in creds :
       /\ r.id = last.id
       /\ r.credentials \notin ValidJson
       /\ r.tags = <<"[", "card", "]">>

\* C10: when the provider call of a source has returned, whatever it
\* brought (a result, a failure, a store that throws), the run records the
\* source and goes on: it ends only when every configured source has its
\* entry, and it ends as a success; a source recorded as successful has its
\* transactions stored and its watermark set to a date of its batch.  A run
\* that found the store and a source never ends at its start as a failure.
C10_FailureDoesNotAbortRun ==
  [][ /\ (run.pc = "scraping" /\ run' # run) =>
           LET config == run.configs[run.idx]
               n == Len(run.results)
               entry == run'.results[n + 1]
           IN /\ Len(run'.results) > n
              /\ entry.scraper = config.scraper_type
              /\ entry.friendlyName = config.friendly_name
              /\ run'.pc \in {"scraping", "done"}
              /\ run'.pc = "done" =>
                   run'.ok /\ Len(run'.results) = Len(run.configs)
              /\ run'.pc = "scraping" =>
                   /\ run'.configs = run.configs
                   /\ run'.idx > run.idx
                   /\ Len(run'.results) = run'.idx - 1
              /\ entry.success =>
                   /\ \A i \in 1..Len(entry.accounts) :
                        entry.accounts[i].identifier # NoIdentifier =>
                          \E r \in txns' :
                            /\ r.scraper_credential_id = config.id
                            /\ r.identifier = entry.accounts[i].identifier
                   /\ Cardinality(txns') >=
                        Cardinality(txns) + Unidentified(entry.accounts)
                   /\ entry.accounts # <<>> =>
                        \E r \in creds' :
                          /\ r.id = config.id
                          /\ \E i \in 1..Len(entry.accounts) :
                               r.last_scraped_timestamp = entry.accounts[i].date
      /\ (run.pc # "scraping" /\ run' # run /\ ScraperDbOpen /\ creds # {}) =>
           /\ run'.pc \in {"scraping", "done"}
           /\ run'.pc = "done" =>
                run'.ok /\ Len(run'.results) = Cardinality(creds)
           /\ run'.pc = "scraping" => Len(run'.results) = run'.idx - 1 ]_vars

\* A run has ended as a success with its first source failed and its second
\* source's transactions stored and its watermark set.
C10_Witness ==
  /\ run.pc = "done"
  /\ run.ok
  /\ Len(run.results) = 2
  /\ ~run.results[1].success
  /\ run.results[2].success
  /\ run.results[2].accounts # <<>>
  /\ \E r \in creds :
       /\ r.scraper_type = run.results[2].scraper
       /\ r.friendly_name = run.results[2].friendlyName
       /\ r.last_scraped_timestamp # NoTimestamp
       /\ \E t \in txns : t.scraper_credential_id = r.id

\* C11: no step moves a source's last_scraped_timestamp backward.
C11_WatermarkNeverMovesBack ==
  [][ \A r \in creds : \A n \in creds' :
        n.id = r.id => n.last_scraped_timestamp >= r.last_scraped_timestamp ]_vars

\* C12: when a source has been fetched and recorded as successful with a
\* batch that is not empty, its last_scraped_timestamp is the greatest
\* processedDate of the batch.
C12_WatermarkIsLatestProcessedDate ==
  [][ (run.pc = "scraping" /\ run' # run) =>
        LET config == run.configs[run.idx]
            entry == run'.results[Len(run.results) + 1]
            txs == entry.accounts
            processed(tx) == IF tx.processedDate = NoDate THEN tx.date
                             ELSE tx.processedDate
        IN (entry.success /\ txs # <<>>) =>
             \E r \in creds' :
               /\ r.id = config.id
               /\ \E i \in 1..Len(txs) : r.last_scraped_timestamp = processed(txs[i])
               /\ \A i \in 1..Len(txs) : processed(txs[i]) <= r.last_scraped_timestamp
    ]_vars

C14_SeparatorRejected ==
  HasSeparator(answer.query) =>
    /\ ~answer.valid
    /\ answer.reason = "Multiple statements are not allowed"
    /\ ~answer.passed

\* C15: an accepted query names no table but transactions and
\* scraper_credentials, after FROM, after JOIN, in a comma list or quoted;
\* a query that names another table is rejected for that table.
C15_OnlyKnownTables ==
  LET tables == ReferencedTables(TrimSql(answer.query))
  IN /\ answer.valid => tables \subseteq allowedTables
     /\ (answer.query # <<>> /\ ~(tables \subseteq allowedTables)) =>
          /\ ~answer.valid
          /\ answer.reason \in {"Access to table(s) not allowed",
                                "Access to table not allowed in PRAGMA"}

\* C16: an accepted query is a SELECT statement or a PRAGMA table_info /
\* index_list statement on an allowed table, and the call that accepts it
\* leaves the tables as they were.
C16_AcceptedQueriesOnlyRead ==
  [][ (answer' # answer /\ answer'.valid) =>
        LET sql == TrimSql(answer'.query)
        IN /\ \/ StatementType(sql) = "select"
              \/ StatementType(sql) = "pragma" /\ PragmaAt(sql, 1) \in allowedTables
           /\ UNCHANGED tableVars ]_vars

\* C17: a call of the store's API on a store that is not open fails with
\* the not-initialized error and leaves the tables and the store's fields as
\* they were; the store becomes open only by initialize() completing.
C17_UnopenedStoreRefusesWrites ==
  [][ /\ (~Ready /\ last' # last) =>
           /\ last'.err = "not initialized"
           /\ UNCHANGED <<tableVars, storeVars>>
      /\ (~Ready /\ Ready') =>
           \E c \in Callers : pc[c] = "apply" /\ pc'[c] = "done" ]_vars

\* C18: setKey(v) succeeds exactly when v without its surrounding blanks
\* has at least 6 characters, and getKey() is then that trimmed text;
\* the key held is at all times absent or at least 6 characters long.
C18_SetKeyValidatesTrimmed ==
  [][ /\ \A v \in KeyInputs :
           SetKeyCall(v) =>
             /\ (last'.err = "none") <=> (Len(Trim(v)) >= 6)
             /\ last'.err = "none" => currentKey' = Trim(v)
             /\ last'.err # "none" => last'.err = "validation" /\ currentKey' = currentKey
      /\ (currentKey' = NoKey \/ Len(currentKey') >= 6) ]_vars

\* C19: a prompt sequence puts at most 2 prompts to the user, notifications
\* and terminal prompts counted together.
C19_AtMostTwoPrompts ==
  \A q \in Seqs : Cardinality(asked[q]) <= 2

\* C20: a tool invocation returns an object with a success flag: the
\* sqlQuery tool returns success false for a query that was rejected or
\* failed, and a tool whose key or store could not be had returns success
\* false; neither throws.
C20_ToolsReturnSuccessFlag ==
  /\ answer.query # <<>> =>
       LET r == RegisterTool(WithDb("opened", SqlQueryHandler(answer)))
       IN r.kind = "return" /\ r.body.success = answer.success
  /\ \A c \in Callers :
       (pc[c] = "done" /\ outcome[c] \notin {"none", "opened"}) =>
         LET r == RegisterTool(WithDb(outcome[c], [kind |-> "return", body |-> [success |-> TRUE]]))
         IN r.kind = "return" /\ ~r.body.success

\* ------------------------------------------- two fetchTransactions calls
\* A second fetchAllTransactions() call, entered while the first one awaits
\* its provider: the same method on the same singleton, with its own
\* locals, up to its first provider call.
FetchAllTransactionsAgain ==
  /\ other.pc \in {"idle", "done"}
  /\ other' = IF ~ScraperDbOpen THEN GlobalFailure(Idle, "TypeError")
              ELSE IF creds = {} THEN GlobalFailure(Idle, "Error")
              ELSE Advance([Idle EXCEPT !.pc = "loop", !.configs = ById(creds), !.idx = 1])
  /\ UNCHANGED <<keyVars, callVars, storeVars, tableVars, scraperDb, run, served, last, answer>>

\* The provider call of the second call's current source returns res.
ScrapeAgain(res) ==
  /\ other.pc = "scraping"
  /\ LET config == other.configs[other.idx]
         latestDate == GetLatestTransactionDate(res.accounts)
     IN IF res.success /\ ScraperDbOpen
          THEN /\ fresh + Unidentified(res.accounts) <= MaxFresh
               /\ \E D \in {SaveScrapedTransactions(Tables, res.accounts, config.id)} :
                    SetTables([D EXCEPT !.creds =
                      IF latestDate # NoDate THEN SetWatermark(@, config.id, latestDate)
                      ELSE @])
               /\ other' = Advance(Push(other, Entry(config, TRUE, res.accounts, "")))
          ELSE /\ other' = Advance(Push(other, Entry(config, FALSE, <<>>,
                             IF res.success THEN "TypeError" ELSE res.errorType)))
               /\ UNCHANGED tableVars
  /\ UNCHANGED <<keyVars, callVars, storeVars, scraperDb, run, served, last, answer>>

\* Two fetchTransactions tool calls handled by one server, on sources
\* configured before the first of them; each call is made once, the second
\* while the first awaits a provider.
SpecTwoRuns ==
  InitOpened /\ [][ \/ \E c \in UpsertInputs :
                         /\ run = Idle /\ other = Idle /\ credSeq < MaxCredSeq
                         /\ Upsert(c)
                    \/ run = Idle /\ FetchAllTransactions
                    \/ \E res \in ProviderResults : Scrape(res)
                    \/ run.pc = "scraping" /\ other = Idle /\ FetchAllTransactionsAgain
                    \/ \E res \in ProviderResults : ScrapeAgain(res) ]_vars

\* --------------------------------------------- saves that throw in a run
\* The provider call of the current source returns res, and insertTx.run
\* throws for the transactions at the positions in thrown.
ScrapeSaveThrows(res, thrown) ==
  /\ run.pc = "scraping"
  /\ thrown \subseteq 1..Len(res.accounts)
  /\ LET config == run.configs[run.idx]
         latestDate == GetLatestTransactionDate(res.accounts)
     IN IF res.success /\ ScraperDbOpen
          THEN /\ fresh + Unidentified(res.accounts) <= MaxFresh
               /\ \E D \in {InsertMany(Tables, res.accounts, 1, config.id, thrown)} :
                    SetTables([D EXCEPT !.creds =
                      IF latestDate # NoDate THEN SetWatermark(@, config.id, latestDate)
                      ELSE @])
               /\ run' = Advance(Push(run, Entry(config, TRUE, res.accounts, "")))
          ELSE /\ thrown = {}
               /\ run' = Advance(Push(run, Entry(config, FALSE, <<>>,
                           IF res.success THEN "TypeError" ELSE res.errorType)))
               /\ UNCHANGED tableVars
  /\ UNCHANGED <<keyVars, callVars, storeVars, scraperDb, other, served, last, answer>>

\* Ingestion runs on a store whose inserts can fail.
SpecSaveErrors ==
  InitOpened /\ [][ \/ \E c \in UpsertInputs : credSeq < MaxCredSeq /\ Upsert(c)
                    \/ FetchAllTransactions
                    \/ \E res \in ProviderResults, thrown \in SUBSET (1..MaxBatch) :
                         ScrapeSaveThrows(res, thrown) ]_vars

\* C21: every transaction row refers to an existing source credential;
\* deleteScraperCredentials(id) removes the credential with that id and
\* the transactions it owns, and no other credential or transaction.
C21_TransactionsHaveOwner ==
  [][ /\ \A t \in txns' : \E r \in creds' : r.id = t.scraper_credential_id
      /\ last'.op = "delete" =>
           \A id \in 1..MaxCredSeq :
             Delete(id) =>
               /\ creds' = {r \in creds : r.id # id}
               /\ txns' = {t \in txns : t.scraper_credential_id # id} ]_vars

\* Two sources were ingested with transactions each, and one of them was
\* deleted afterwards: the other one and its transactions are still there.
C21_Witness ==
  /\ last.op = "delete" /\ last.id = 1
  /\ run.pc = "done" /\ Len(run.results) = 2
  /\ \A i \in 1..2 : run.results[i].success /\ run.results[i].accounts # <<>>
  /\ Cardinality(creds) = 1
  /\ txns # {}

C23_OnlyValidatedRecordsUpserted ==
  [][ last'.op = "ingestCredentials" =>
        \A data \in CredentialFiles :
          (IngestCredentials(data) /\ last'.err = "none") =>
            \A i \in 1..Len(data) : scraperConfigSchema(data[i]) ]_vars

\* C24: a run that found the store handle and at least one configured
\* source ends with success true and exactly one entry per configured
\* source, in the order the sources were processed, however many failed.
C24_OneEntryPerSource ==
  [][ run' # run =>
        LET configs == IF run.pc = "scraping" THEN run.configs ELSE ById(creds)
            started == run.pc = "scraping" \/ (creds # {} /\ ScraperDbOpen)
        IN started =>
             /\ run'.pc = "done" => run'.ok /\ Len(run'.results) = Len(configs)
             /\ \A i \in 1..Len(run'.results) :
                  /\ i <= Len(configs)
                  /\ run'.results[i].scraper = configs[i].scraper_type
                  /\ run'.results[i].friendlyName = configs[i].friendly_name ]_vars

\* A run over two sources has ended as a success although both failed:
\* one on its stored credentials, one in its provider call.
C24_Witness ==
  /\ run.pc = "done" /\ run.ok
  /\ Len(run.results) = 2
  /\ ~run.results[1].success /\ ~run.results[2].success
  /\ run.results[1].scraper # run.results[2].scraper
  /\ {run.results[1].errorType, run.results[2].errorType} = {"CredentialsError", "TIMEOUT"}

\* C25: the start date handed to the provider is never earlier than one
\* year before the time of the run: for a source whose watermark is older
\* than that, it is one year before now and not the watermark.  Times are
\* compared in seconds since the epoch, for runs taking place 2 and 50
\* years after it.
C25_StartNotBeforeOneYearAgo ==
  LET year == 365 * 24 * 3600
      seconds(start, now) ==
        IF start.from = "now" THEN now + start.years * year
        ELSE start.ms \div Second
  IN run.pc = "scraping" =>
       \A now \in {2 * year, 50 * year} :
         seconds(run.startDate, now) >= now - year

\* C26: the encryption key is held in memory only: no text that the
\* server writes to its log file contains the key it was given.
C26_KeyNotInLogFile ==
  LET contains(text, key) ==
        \E i \in 0..(Len(text) - Len(key)) : SubSeq(text, i + 1, i + Len(key)) = key
  IN \A l \in logged : ~contains(l.text, l.key)

\* C27: once initialize() has failed on the key (authentication error),
\* the next ensureKeyIsAvailable call does not hand out a key from memory
\* but starts a prompt sequence of its own; and an initialize() that then
\* holds the key of the store succeeds.
C27_FreshPromptAfterAuthError ==
  [][ \A c \in Callers :
        (\A d \in Callers \ {c} : pc[d] = "done" /\ outcome[d] = "authError") =>
          /\ (pc[c] = "start" /\ (pc'[c] \in {"prompting", "polling"} \/ gotKey'[c] # NoKey)) =>
               /\ pc'[c] = "prompting"
               /\ gotKey'[c] = NoKey
               /\ seqState[<<c, "withDb">>] = "none"
               /\ seqState'[<<c, "withDb">>] = "active"
               /\ \E a \in 0..maxRetries : <<"notif", a>> \in asked'[<<c, "withDb">>]
          /\ (pc[c] = "apply" /\ pc'[c] # "apply" /\ ~isNew[c]
                /\ file.st = "keyed" /\ gotKey[c] = file.key) =>
               /\ outcome'[c] = "opened" /\ ret'[c] = c
               /\ db' = c /\ initialized' ]_vars

\* C28: a prompt sequence cannot go on for ever: every outcome of a
\* prompt (a reply, an empty or too short reply, a timeout, a dismissal,
\* an error) either settles the sequence or uses up one of its maxRetries
\* attempts, so that no prompt of a sequence in flight is ever put to the
\* user at or beyond the ceiling.
C28_SequenceEnds ==
  /\ \A p \in prompts :
       seqState[p.owner] = "active" => p.attempt < maxRetries
  /\ \A q \in Seqs :
       seqState[q] = "active" => \E p \in prompts : p.owner = q

\* C29: the coordinator moves only from no key to prompting, from
\* prompting to a key or back to no key, and from a key to no key by
\* clearKey(): while a key is set no prompt sequence is in flight, and a
\* key that is set keeps its value until clearKey() discards it.
C29_CoordinatorStates ==
  [][ /\ currentKey' # NoKey =>
           ~isPrompting' /\ \A q \in Seqs : seqState'[q] # "active"
      /\ currentKey' # currentKey =>
           \/ currentKey = NoKey /\ isPrompting /\ currentKey' # NoKey
           \/ /\ currentKey # NoKey /\ currentKey' = NoKey
              /\ \E c \in Callers : pc[c] = "apply" /\ outcome'[c] = "authError" ]_vars

\* C30: when the provider call of a source succeeds and returns no
\* transactions, the step leaves the watermark of every source and the
\* transaction table as they were.
C30_EmptyResultChangesNothing ==
  [][ (/\ run.pc = "scraping"
       /\ run' # run
       /\ Len(run'.results) > Len(run.results)
       /\ run'.results[Len(run.results) + 1].success
       /\ run'.results[Len(run.results) + 1].accounts = <<>>)
        => /\ txns' = txns
           /\ creds' = creds
           /\ fresh' = fresh ]_vars

\* A source that has a watermark and stored transactions from an earlier
\* call has been scraped again, and the provider gave an empty success.
C30_Witness ==
  /\ Len(run.results) >= 1
  /\ \E i \in 1..Len(run.results) :
       /\ run.results[i].success
       /\ run.results[i].accounts = <<>>
       /\ \E r \in creds :
            /\ r.scraper_type = run.results[i].scraper
            /\ r.friendly_name = run.results[i].friendlyName
            /\ r.last_scraped_timestamp # NoTimestamp
            /\ \E t \in txns : t.scraper_credential_id = r.id

\* C31: a source whose stored credentials JSON.parse refuses gets an entry
\* with errorType CredentialsError and success false, the provider is not
\* called for it, its watermark stays as it was, and the loop goes on to
\* the sources after it: the run stops at the next provider call or ends
\* with one entry per source.
C31_BadCredentialsSkipped ==
  [][ run' # run =>
        LET configs == IF run.pc = "scraping" THEN run.configs ELSE ById(creds)
            started == run.pc = "scraping" \/ (creds # {} /\ ScraperDbOpen)
        IN started =>
             \A i \in 1..Len(configs) :
               (/\ configs[i].credentials \notin ValidJson
                /\ Len(run.results) < i
                /\ (i <= Len(run'.results) \/ (run'.pc = "scraping" /\ run'.idx >= i)))
                 => /\ i <= Len(run'.results)
                    /\ run'.results[i].errorType = "CredentialsError"
                    /\ ~run'.results[i].success
                    /\ run'.pc = "scraping" => run'.idx > i
                    /\ run'.pc = "done" => Len(run'.results) = Len(configs)
                    /\ \A r \in creds, r2 \in creds' :
                         r.id = configs[i].id /\ r2.id = r.id
                           => r2.last_scraped_timestamp = r.last_scraped_timestamp ]_vars

\* A run over two sources has ended: the first had undecodable credentials,
\* the second was scraped and brought transactions.
C31_Witness ==
  /\ run.pc = "done" /\ Len(run.results) = 2
  /\ run.results[1].errorType = "CredentialsError"
  /\ run.results[2].success /\ run.results[2].accounts # <<>>
  /\ \E r \in creds : r.id = 2 /\ r.last_scraped_timestamp # NoTimestamp

\* C32: at most one provider call is awaited at any time, also when two
\* fetchAllTransactions calls have been started: the two calls are never
\* both waiting for a provider.
C32_OneProviderCallInFlight ==
  ~(run.pc = "scraping" /\ other.pc = "scraping")

\* The store closed and opened again by a later client while ingestion
\* runs are asked for.
SpecReopen ==
  InitOpened /\ [][ \/ \E c \in UpsertInputs : credSeq < 1 /\ Upsert(c)
                    \/ Close
                    \/ \E c \in Callers : Open(c)
                    \/ \E c \in Callers : InitEnter(c)
                    \/ \E c \in Callers, chmodOk \in BOOLEAN : OpenRaw(c, chmodOk)
                    \/ \E c \in Callers : Apply(c)
                    \/ FetchAllTransactions
                    \/ \E res \in ProviderResults : Scrape(res) ]_vars

\* C33: once close() has released the handle, no step of an ingestion run
\* is made on a released handle, and once the store has been opened again
\* a run works on the handle that open() produced.
C33_NoUseOfReleasedHandle ==
  [][ run' # run =>
        /\ scraperDb \in rawOpen
        /\ Ready => scraperDb = db ]_vars

\* C34: a fetchAllTransactions call that finds no source credential ends at
\* once as a failed run whose only entry is the run-level one ('global',
\* success false, the Error thrown for the empty source list); no provider
\* call is started and no table is changed.
C34_NoSourcesFailsFast ==
  [][ (run' # run /\ run.pc # "scraping" /\ creds = {}) =>
        /\ run'.pc = "done" /\ ~run'.ok
        /\ Len(run'.results) = 1
        /\ run'.results[1].scraper = "global" /\ ~run'.results[1].success
        /\ ScraperDbOpen => run'.results[1].errorType = "Error"
        /\ UNCHANGED tableVars ]_vars

\* A run asked for after the last source was deleted has failed at the
\* run level.
C34_Witness ==
  /\ creds = {} /\ credSeq > 0
  /\ run.pc = "done" /\ ~run.ok
  /\ Len(run.results) = 1 /\ run.results[1].errorType = "Error"

\* C35: a prompt sequence never has more than one prompt or reply listener
\* outstanding: after a notifier error there is one terminal listener, so
\* that one reply is handled once.
C35_OneListenerPerSequence ==
  \A r \in prompts :
    /\ r.n = 1
    /\ \A r2 \in prompts : r2.owner = r.owner => r2 = r

\* C36: an initialize() call that has failed (no key obtained, wrong key,
\* permissions not set) has left no raw handle of its own open, and has
\* not marked the store as opened.
C36_FailedOpenLeavesNothing ==
  \A c \in Callers :
    (pc[c] = "done" /\ outcome[c] \in {"keyError", "authError", "permError"})
      => /\ c \notin rawOpen
         /\ db # c

\* C37: a run step that moves the watermark of the source it has scraped
\* leaves every transaction of the batch in the store: each identifier of
\* the batch is a row of that source, and each transaction without
\* identifier has got a row of its own.
C37_WatermarkOnlyPastSavedRows ==
  [][ (run.pc = "scraping" /\ Len(run'.results) > Len(run.results)) =>
        LET config == run.configs[run.idx]
            batch == run'.results[Len(run.results) + 1].accounts
            moved == \E r \in creds, r2 \in creds' :
                       /\ r.id = config.id /\ r2.id = r.id
                       /\ r2.last_scraped_timestamp # r.last_scraped_timestamp
        IN moved =>
             /\ \A i \in 1..Len(batch) :
                  batch[i].identifier # NoIdentifier =>
                    \E t \in txns' : /\ t.scraper_credential_id = config.id
                                     /\ t.identifier = batch[i].identifier
             /\ Cardinality({t \in txns' \ txns : t.identifier < 0})
                  = Unidentified(batch) ]_vars

\* C38: no step moves the watermark of more than one source: when the
\* watermark of a source is advanced, every other source keeps its own,
\* sources of the same friendly name under another provider type included.
C38_WatermarkOfOneSource ==
  [][ \A r \in creds, s \in creds, r2 \in creds', s2 \in creds' :
        (r.id # s.id /\ r2.id = r.id /\ s2.id = s.id)
          => \/ r2.last_scraped_timestamp = r.last_scraped_timestamp
             \/ s2.last_scraped_timestamp = s.last_scraped_timestamp ]_vars

====
